---- MODULE Spec2Model ----
(***************************************************************************)
(* Policy-gated resource access layer of aios.tools:                       *)
(*   FilesToolkit    (src/src/aios/tools/files.py)                         *)
(*   TerminalToolkit (src/src/aios/tools/terminal.py)                      *)
(*                                                                         *)
(* Text is modelled as a sequence of one-character strings, a path         *)
(* component as the sequence of its characters, and a canonical            *)
(* (resolved, absolute) path as the sequence of its components; the        *)
(* root directory is the empty sequence.                                   *)
(***************************************************************************)
EXTENDS Integers, Sequences, FiniteSets, TLC

VARIABLES
    fs,               \* the host filesystem: canonical path -> node
    allowed_paths,    \* FilesToolkit.allowed_paths (resolved at construction)
    blocked_paths,    \* FilesToolkit.blocked_paths (resolved at construction)
    chk,              \* the last _is_path_allowed call: its argument and result
    allowed_commands, \* TerminalToolkit.allowed_commands
    blocked_commands, \* TerminalToolkit.blocked_commands
    timeout,          \* TerminalToolkit.timeout, in clock ticks
    xpc,              \* execute: "idle", "running", "returned" or "raised"
    xcmd,             \* execute: the command argument of the call
    xres,             \* execute: the CommandResult returned
    xexit,            \* execute: the return statement that built xres
    child,            \* the child process: "none", "running", "exited", "killed"
    elapsed,          \* clock ticks since the child was spawned
    spawned,          \* child processes spawned by the current call
    fpc,              \* file operation: "idle", "checked", "statted", "searching",
                      \* "searched", "returned" or "raised"
    fcall,            \* file operation: the operation and its arguments
    fres,             \* file operation: the string returned
    touched,          \* whether the call has examined or opened its target
    expect,           \* the content the last writes left at a path (history)
    todo,             \* search_files: the entries the traversal has yet to yield
    matches,          \* search_files: the list of matches
    opened,           \* search_files: the paths opened for the content filter (history)
    visited,          \* search_files: the entries taken from the traversal (history)
    meddled,          \* how often another actor has changed the filesystem
    info,             \* a FileInfo object: the size it was made with and self.size
    shown             \* the texts its size_human has returned so far (history)

guardVars == <<fs, allowed_paths, blocked_paths, chk>>

execVars == <<allowed_commands, blocked_commands, timeout, xpc, xcmd, xres,
              xexit, child, elapsed, spawned>>

fileVars == <<fpc, fcall, fres, touched, expect, todo, matches, opened, visited,
              meddled>>

infoVars == <<info, shown>>

vars == <<guardVars, execVars, fileVars, infoVars>>

(***************************************************************************)
(* Bounds of the model.                                                    *)
(***************************************************************************)
\* the most evaluations of size_human on one FileInfo
MaxEvals == 3
\* the largest multiple of a unit taken as a file size
MaxMantissa == 8
\* the longest candidate path, in components
MaxDepth == 3
\* the longest command, in characters
MaxCmdLen == 3
\* the longest configured timeout, in clock ticks
MaxTimeout == 2
\* max_file_size, in bytes, scaled to the model's contents
max_file_size == 1
\* the longest file the model lets appends build, in bytes
MaxFileLen == 2
\* the most changes another actor makes to the filesystem
MaxMeddle == 1
\* the most entries of the large tree that search_files is run on
MaxEntries == 104
\* one entry in so many of the large tree is a directory
DirEvery == 50
\* one entry in so many of the large tree may be a symlink
LinkEvery == 40

(***************************************************************************)
(* Text helpers.                                                           *)
(***************************************************************************)
SEP == "/"
NUL == "NUL"
DOT == <<".">>
DOTDOT == <<".", ".">>

\* str.startswith
StartsWith(s, prefix) ==
    /\ Len(prefix) <= Len(s)
    /\ SubSeq(s, 1, Len(prefix)) = prefix

\* pattern in s
Contains(s, pattern) ==
    \E i \in 0..(Len(s) - Len(pattern)) : SubSeq(s, i + 1, i + Len(pattern)) = pattern

\* str.endswith
EndsWith(s, suffix) ==
    /\ Len(suffix) <= Len(s)
    /\ SubSeq(s, Len(s) - Len(suffix) + 1, Len(s)) = suffix

RECURSIVE SplitFrom(_, _, _)
\* str.split("/"): the components of s from position i on, cur being the
\* component read so far
SplitFrom(s, i, cur) ==
    IF i > Len(s) THEN <<cur>>
    ELSE IF s[i] = SEP THEN <<cur>> \o SplitFrom(s, i + 1, <<>>)
    ELSE SplitFrom(s, i + 1, Append(cur, s[i]))

IsPart(x) == x # <<>> /\ x # DOT

\* PurePath parsing: empty and "." components are dropped, ".." is kept
PathParts(s) == SelectSeq(SplitFrom(s, 1, <<>>), IsPart)

PathIsAbsolute(s) == Len(s) > 0 /\ s[1] = SEP

RECURSIVE JoinParts(_)
JoinParts(parts) ==
    IF parts = <<>> THEN <<>>
    ELSE IF Len(parts) = 1 THEN Head(parts)
    ELSE Head(parts) \o <<SEP>> \o JoinParts(Tail(parts))

\* str(path) of an absolute path
PathStr(p) == <<SEP>> \o JoinParts(p)

\* str(path) of a path written with or without the leading separator
Text(abs, parts) == IF abs THEN PathStr(parts) ELSE JoinParts(parts)

(***************************************************************************)
(* The filesystem.                                                         *)
(***************************************************************************)
A == <<"a">>
AB == <<"a", "b">>
T == <<"t">>
H == <<"h">>
F == <<"f">>
L == <<"l">>
D == <<"d">>

\* the process's working directory, against which relative paths resolve
Cwd == <<T>>

NoNode == [kind |-> "none", data |-> <<>>, target |-> <<>>, readable |-> TRUE]
DirNode == [kind |-> "dir", data |-> <<>>, target |-> <<>>, readable |-> TRUE]
FileNode(c) == [kind |-> "file", data |-> c, target |-> <<>>, readable |-> TRUE]
LinkNode(t) == [kind |-> "link", data |-> <<>>, target |-> t, readable |-> TRUE]

Nodes ==
    { <<>>, <<A>>, <<A, F>>, <<AB>>, <<AB, F>>, <<T>>, <<T, F>>, <<T, L>>,
      <<T, D>>, <<T, D, F>>, <<H>> }

\* /a and /ab hold a file each, /t holds a file f and a symlink l -> /a
InitFs ==
    [n \in Nodes |->
        CASE n \in {<<>>, <<A>>, <<AB>>, <<T>>, <<H>>} -> DirNode
          [] n \in {<<A, F>>, <<AB, F>>} -> FileNode(<<"x">>)
          [] n = <<T, F>> -> FileNode(<<"F">>)
          [] n = <<T, L>> -> LinkNode(<<A>>)
          [] OTHER -> NoNode]

Node(f, n) == IF n \in DOMAIN f THEN f[n] ELSE NoNode

Parent(p) == IF p = <<>> THEN <<>> ELSE SubSeq(p, 1, Len(p) - 1)

RECURSIVE Walk(_, _, _)
\* os.path.realpath, non-strict: ".." steps to the parent of the resolved
\* prefix, a symlink is replaced by its target, a missing component is kept
Walk(f, cur, rest) ==
    IF rest = <<>> THEN cur
    ELSE IF Head(rest) = DOTDOT THEN Walk(f, Parent(cur), Tail(rest))
    ELSE LET nxt == Append(cur, Head(rest)) IN
         IF Node(f, nxt).kind = "link"
         THEN Walk(f, Node(f, nxt).target, Tail(rest))
         ELSE Walk(f, nxt, Tail(rest))

HasNul(s) == \E i \in 1..Len(s) : s[i] = NUL

\* Path(path).resolve(); raises ValueError on an embedded null byte
Resolve(f, s) ==
    IF HasNul(s) THEN [ok |-> FALSE, path |-> <<>>]
    ELSE [ok |-> TRUE,
          path |-> Walk(f, IF PathIsAbsolute(s) THEN <<>> ELSE Cwd, PathParts(s))]

(***************************************************************************)
(* FilesToolkit.__init__                                                   *)
(***************************************************************************)
\* [str(Path.home()), "/tmp"]
DefaultAllowed == << PathStr(<<H>>), PathStr(<<T>>) >>

\* the default blocked list ("/etc", ...)
DefaultBlocked == << PathStr(<<A>>) >>

ResolveAll(f, list) == [i \in 1..Len(list) |-> Resolve(f, list[i]).path]

\* allowed_paths = [Path(p).resolve() for p in (allowed_paths or defaults)]
InitAllowed(f, given) == ResolveAll(f, IF given = <<>> THEN DefaultAllowed ELSE given)

\* blocked_paths = [Path(p).resolve() for p in (blocked_paths or defaults)]
InitBlocked(f, given) == ResolveAll(f, IF given = <<>> THEN DefaultBlocked ELSE given)

(***************************************************************************)
(* FilesToolkit._is_path_allowed                                           *)
(***************************************************************************)
\* a plausible slip: containment tested on the text of the two paths
relative_to_textual(p, base) == StartsWith(PathStr(p), PathStr(base))

\* PurePath.relative_to succeeds (raises no ValueError): the components of
\* base are the leading components of p
relative_to(p, base) ==
    /\ Len(base) <= Len(p)
    /\ \A i \in 1..Len(base) : p[i] = base[i]

\* the index of the first directory of list that p is relative to, 0 if none
FirstMatch(p, list) ==
    IF \E i \in 1..Len(list) : relative_to(p, list[i])
    THEN CHOOSE i \in 1..Len(list) :
            /\ relative_to(p, list[i])
            /\ \A j \in 1..(i - 1) : ~relative_to(p, list[j])
    ELSE 0

Verdict(allowed, tag, dirs) == [allowed |-> allowed, tag |-> tag, dirs |-> dirs]

\* a plausible slip: the allowed directories are consulted before the blocked
is_path_allowed_allow_first(f, allow, block, path) ==
    LET r == Resolve(f, path)
        a == FirstMatch(r.path, allow)
        b == FirstMatch(r.path, block)
    IN  IF ~r.ok THEN Verdict(FALSE, "Invalid", <<>>)
        ELSE IF a # 0 THEN Verdict(TRUE, "Within", <<allow[a]>>)
        ELSE IF b # 0 THEN Verdict(FALSE, "Blocked", <<block[b]>>)
        ELSE Verdict(FALSE, "NotWithin", allow)

is_path_allowed(f, allow, block, path) ==
    LET r == Resolve(f, path)
        b == FirstMatch(r.path, block)
        a == FirstMatch(r.path, allow)
    IN  IF ~r.ok THEN Verdict(FALSE, "Invalid", <<>>)
        ELSE IF b # 0 THEN Verdict(FALSE, "Blocked", <<block[b]>>)
        ELSE IF a # 0 THEN Verdict(TRUE, "Within", <<allow[a]>>)
        ELSE Verdict(FALSE, "NotWithin", allow)

(***************************************************************************)
(* The path guard on its own: every policy of GuardPolicies against every  *)
(* candidate path of GuardPaths.                                           *)
(***************************************************************************)
GuardSegs == {A, AB, T, L, F, DOTDOT}

RECURSIVE SeqsUpTo(_, _)
\* the sequences over S of length at most n
SeqsUpTo(S, n) ==
    IF n = 0 THEN {<<>>}
    ELSE LET shorter == SeqsUpTo(S, n - 1) IN
         shorter \cup {Append(s, x) : s \in shorter, x \in S}

GuardPaths ==
    {Text(abs, parts) : abs \in BOOLEAN, parts \in SeqsUpTo(GuardSegs, MaxDepth)}
        \cup {<<SEP, "t", SEP, NUL>>}

\* the allowed_paths arguments tried (the empty list selects the defaults)
AllowedGiven ==
    { <<>>, <<PathStr(<<T>>)>>, <<PathStr(<<>>)>>, <<PathStr(<<A>>)>>,
      <<PathStr(<<T>>), PathStr(<<A>>)>>, <<PathStr(<<A, F>>), PathStr(<<AB>>)>> }

\* the blocked_paths arguments tried (the empty list selects the defaults)
BlockedGiven ==
    { <<>>, <<PathStr(<<A>>)>>, <<PathStr(<<AB>>)>>, <<PathStr(<<T>>)>>,
      <<PathStr(<<T, L>>)>>, <<PathStr(<<A, F>>), PathStr(<<T, F>>)>> }

\* a call not yet made: the argument is chosen, the verdict is pending
Pending(path) == [path |-> path, resolved |-> [ok |-> FALSE, path |-> <<>>],
                  res |-> Verdict(FALSE, "Pending", <<>>)]

NoCheck == Pending(<<>>)

GuardIdle ==
    /\ fs = InitFs
    /\ allowed_paths = InitAllowed(InitFs, <<>>)
    /\ blocked_paths = InitBlocked(InitFs, <<>>)
    /\ chk = NoCheck

\* one call of _is_path_allowed, on the pending argument
CheckPath ==
    /\ chk.res.tag = "Pending"
    /\ chk' = [path |-> chk.path, resolved |-> Resolve(fs, chk.path),
               res |-> is_path_allowed(fs, allowed_paths, blocked_paths, chk.path)]
    /\ UNCHANGED <<infoVars, fs, allowed_paths, blocked_paths, execVars, fileVars>>

(***************************************************************************)
(* What the host does with a path at a system call.                        *)
(***************************************************************************)
\* the node a system call that follows symlinks reaches for the path
Target(f, path) == Resolve(f, path).path

Base(path) == IF PathIsAbsolute(path) THEN <<>> ELSE Cwd

Front(q) == SubSeq(q, 1, Len(q) - 1)

\* the node file_path.parent names
ParentTarget(f, path) ==
    IF PathParts(path) = <<>> THEN Target(f, path)
    ELSE Walk(f, Base(path), Front(PathParts(path)))

\* the node a system call that does not follow a final symlink reaches
LTarget(f, path) ==
    LET parts == PathParts(path) IN
    IF parts = <<>> \/ parts[Len(parts)] = DOTDOT THEN Target(f, path)
    ELSE Append(ParentTarget(f, path), parts[Len(parts)])

\* Path.exists(), Path.is_file(), Path.is_dir(): they follow symlinks
exists(f, path) == Node(f, Target(f, path)).kind # "none"
is_file(f, path) == Node(f, Target(f, path)).kind = "file"
is_dir(f, path) == Node(f, Target(f, path)).kind = "dir"

\* the nodes at or below n
Subtree(f, n) == {m \in DOMAIN f : relative_to(m, n)}

\* the proper ancestors of n, and n itself
Ancestors(n) == {SubSeq(n, 1, k) : k \in 0..Len(n)}

\* Path.mkdir(parents=True, exist_ok=True) fails when a file is in the way
MkdirFails(f, n) == \E m \in Ancestors(n) : Node(f, m).kind = "file"

\* the filesystem after mkdir(parents=True, exist_ok=True) of n
Mkdir(f, n) ==
    [m \in DOMAIN f |->
        IF m \in Ancestors(n) /\ f[m].kind = "none" THEN DirNode ELSE f[m]]

\* the filesystem with n and all below it removed
RemoveTree(f, n) == [m \in DOMAIN f |-> IF relative_to(m, n) THEN NoNode ELSE f[m]]

(***************************************************************************)
(* Text files: encoding on write, decoding on read.                        *)
(***************************************************************************)
CR == "\r"
LF == "\n"

\* os.linesep on the POSIX hosts the toolkit's path lists are written for
LineSep == <<LF>>

RECURSIVE Encode(_)
\* text-mode write with newline=None: every "\n" is written as os.linesep
Encode(c) ==
    IF c = <<>> THEN <<>>
    ELSE IF Head(c) = LF THEN LineSep \o Encode(Tail(c))
    ELSE <<Head(c)>> \o Encode(Tail(c))

RECURSIVE Decode(_)
\* text-mode read with newline=None (universal newlines): "\r\n" and "\r"
\* are both read as "\n"
Decode(b) ==
    IF b = <<>> THEN <<>>
    ELSE IF Head(b) = CR
    THEN IF Len(b) >= 2 /\ b[2] = LF THEN <<LF>> \o Decode(SubSeq(b, 3, Len(b)))
         ELSE <<LF>> \o Decode(Tail(b))
    ELSE <<Head(b)>> \o Decode(Tail(b))

(***************************************************************************)
(* FileInfo.size_human                                                     *)
(***************************************************************************)
Units == <<"B", "KB", "MB", "GB">>
KIB == 1024

\* f"{x:.1f}" of the quotient num/den, in tenths (round half to even)
Tenths(num, den) ==
    LET q == (10 * num) \div den
        r == (10 * num) % den
    IN  IF 2 * r > den \/ (2 * r = den /\ q % 2 = 1) THEN q + 1 ELSE q

RECURSIVE Ladder(_, _, _)
\* the loop of lines 27-31 at the k-th unit, self.size being num/den: the
\* text is returned at the first unit where self.size < 1024, else self.size
\* is divided by 1024; after the last unit the text is in TB.  num and den
\* are self.size as the loop leaves it
Ladder(num, den, k) ==
    IF k > Len(Units)
    THEN [tenths |-> Tenths(num, den), unit |-> "TB", num |-> num, den |-> den]
    ELSE IF num \div den < KIB
    THEN [tenths |-> Tenths(num, den), unit |-> Units[k], num |-> num, den |-> den]
    ELSE Ladder(num, den * KIB, k + 1)

\* the text size_human gives for a FileInfo made with that size
size_human(size) ==
    [tenths |-> Ladder(size, 1, 1).tenths, unit |-> Ladder(size, 1, 1).unit]

\* FileInfo(size=size, ...): lines 280-287
FileInfo(size) == [made |-> size, num |-> size, den |-> 1]

\* the sizes of files: around the multiples of the units B, KB and MB
InfoSizes ==
    LET at == {m * u : m \in 0..MaxMantissa, u \in {1, KIB \div 2, KIB, KIB * KIB}}
    IN  at \cup {x - 1 : x \in at \ {0}}

\* a FileInfo is made for a file of some size
Construct(size) ==
    /\ info' = FileInfo(size)
    /\ shown' = <<>>
    /\ UNCHANGED <<guardVars, execVars, fileVars>>

\* info.size_human is evaluated: lines 24-31, with the assignments to
\* self.size of line 30
SizeHuman ==
    /\ Len(shown) < MaxEvals
    /\ LET r == Ladder(info.num, info.den, 1) IN
          /\ shown' = Append(shown, [tenths |-> r.tenths, unit |-> r.unit])
          /\ info' = [info EXCEPT !.num = r.num, !.den = r.den]
    /\ UNCHANGED <<guardVars, execVars, fileVars>>

InfoIdle ==
    /\ info = FileInfo(0)
    /\ shown = <<>>

(***************************************************************************)
(* The strings the file operations return.                                 *)
(***************************************************************************)
\* tag: which message; reason, dirs: what a denial names; text: file
\* content read; names: the lines of a search result and count their
\* number; entries: the directory entries listed; info: size and unit
Reply(tag, reason, dirs, text, names, entries, sized) ==
    [tag |-> tag, reason |-> reason, dirs |-> dirs, text |-> text,
     names |-> names, count |-> Len(names), entries |-> entries, info |-> sized]

NoInfo == [tenths |-> 0, unit |-> ""]

Plain(tag) == Reply(tag, "", <<>>, <<>>, <<>>, <<>>, NoInfo)

\* f"Access denied: {reason}"
AccessDenied(v) == Reply("Access denied", v.tag, v.dirs, <<>>, <<>>, <<>>, NoInfo)

NoReply == Plain("")

\* content is the text to write, or the text to search for
Call(op, path, pattern, content, append) ==
    [op |-> op, path |-> path, pattern |-> pattern, content |-> content,
     append |-> append]

NoCall == Call("", <<>>, <<>>, <<>>, FALSE)

NoExpect == [known |-> FALSE, node |-> <<>>, data |-> <<>>]

\* what the writes so far promise a read of node n: nothing once something
\* else has changed n
Forget(e, f, g) ==
    IF e.known /\ Node(f, e.node) # Node(g, e.node) THEN NoExpect ELSE e

\* a plausible slip: the blocked list is not consulted by the operations
GuardWithoutBlocked(f, path) == is_path_allowed(f, allowed_paths, <<>>, path)

\* self._is_path_allowed(path)
Guard(f, path) == is_path_allowed(f, allowed_paths, blocked_paths, path)

Returns(call, reply) ==
    /\ fpc' = "returned"
    /\ fcall' = call
    /\ fres' = reply

\* st_size: the bytes of a file; a directory's own size is below any limit
Size(n) == IF n.kind = "file" THEN Len(n.data) ELSE 0

(***************************************************************************)
(* FilesToolkit.read_file (max_lines not given)                            *)
(***************************************************************************)
\* the guard and the existence and type checks: lines 98-107
ReadFile(path) ==
    /\ fpc = "idle"
    /\ LET v == Guard(fs, path)
           c == Call("read", path, <<>>, <<>>, FALSE)
       IN  IF ~v.allowed THEN Returns(c, AccessDenied(v)) /\ touched' = FALSE
           ELSE IF ~exists(fs, path)
           THEN Returns(c, Plain("File not found")) /\ touched' = TRUE
           ELSE IF ~is_file(fs, path)
           THEN Returns(c, Plain("Not a file")) /\ touched' = TRUE
           ELSE fpc' = "checked" /\ fcall' = c /\ fres' = NoReply /\ touched' = TRUE
    /\ UNCHANGED <<infoVars, guardVars, execVars, expect, visited, meddled, todo, matches, opened>>

\* file_path.stat(), outside any try block: lines 109-110
ReadStat ==
    /\ fpc = "checked"
    /\ fcall.op = "read"
    /\ LET n == Node(fs, Target(fs, fcall.path)) IN
       IF n.kind = "none" THEN fpc' = "raised" /\ fres' = NoReply
       ELSE IF Size(n) > max_file_size
       THEN fpc' = "returned" /\ fres' = Plain("File too large")
       ELSE fpc' = "statted" /\ fres' = NoReply
    /\ UNCHANGED <<infoVars, guardVars, execVars, fcall, touched, expect,
                   visited, meddled, todo, matches, opened>>

\* open and read inside the try block: lines 112-124
ReadOpen ==
    /\ fpc = "statted"
    /\ fcall.op = "read"
    /\ LET n == Node(fs, Target(fs, fcall.path)) IN
       fres' = IF n.kind # "file" \/ ~n.readable THEN Plain("Error reading file")
               ELSE Reply("Content", "", <<>>, Decode(n.data), <<>>, <<>>, NoInfo)
    /\ fpc' = "returned"
    /\ UNCHANGED <<infoVars, guardVars, execVars, fcall, touched, expect,
                   visited, meddled, todo, matches, opened>>

(***************************************************************************)
(* FilesToolkit.write_file                                                 *)
(***************************************************************************)
\* the filesystem after the try block of lines 144-155, and whether it failed
WriteEffect(f, path, content, append) ==
    LET dir == ParentTarget(f, path)
        made == Mkdir(f, dir)
        n == Target(made, path)
        old == Node(made, n)
    IN  IF MkdirFails(f, dir) THEN [ok |-> FALSE, fs |-> f, node |-> n]
        ELSE IF n \notin DOMAIN f \/ old.kind = "dir" \/ ~old.readable
        THEN [ok |-> FALSE, fs |-> made, node |-> n]
        ELSE [ok |-> TRUE, node |-> n,
              fs |-> [made EXCEPT ![n] =
                         FileNode(IF append /\ old.kind = "file"
                                  THEN old.data \o Encode(content)
                                  ELSE Encode(content))]]

\* lines 137-155
WriteFile(path, content, append) ==
    /\ fpc = "idle"
    /\ append => Size(Node(fs, Target(fs, path))) + Len(content) <= MaxFileLen
    /\ LET v == Guard(fs, path)
           c == Call("write", path, <<>>, content, append)
           w == WriteEffect(fs, path, content, append)
       IN  IF ~v.allowed
           THEN Returns(c, AccessDenied(v)) /\ UNCHANGED <<infoVars, fs, expect>>
           ELSE IF Len(content) > max_file_size
           THEN Returns(c, Plain("Content too large")) /\ UNCHANGED <<infoVars, fs, expect>>
           ELSE IF ~w.ok
           THEN /\ Returns(c, Plain("Error writing file"))
                /\ fs' = w.fs
                /\ expect' = Forget(expect, fs, w.fs)
           ELSE /\ Returns(c, Plain(IF append THEN "Successfully appended to"
                                    ELSE "Successfully written to"))
                /\ fs' = w.fs
                /\ expect' =
                     IF ~append THEN [known |-> TRUE, node |-> w.node, data |-> content]
                     ELSE IF expect.known /\ expect.node = w.node
                     THEN [expect EXCEPT !.data = @ \o content]
                     ELSE NoExpect
    /\ touched' = (Guard(fs, path).allowed /\ Len(content) <= max_file_size)
    /\ UNCHANGED <<infoVars, allowed_paths, blocked_paths, chk, execVars,
                   visited, meddled, todo, matches, opened>>

(***************************************************************************)
(* FilesToolkit.list_directory (pattern not given)                         *)
(***************************************************************************)
\* the characters of names, in code point order, and their lower-case forms
Alphabet == <<".", "0", "1", "2", "3", "4", "5", "6", "7", "8", "9",
              "D", "F", "a", "b", "d", "e", "f", "h", "l", "t", "x">>

Rank(c) == CHOOSE i \in 1..Len(Alphabet) : Alphabet[i] = c

\* str.lower
Lower(c) == CASE c = "D" -> "d" [] c = "F" -> "f" [] OTHER -> c

LowerText(s) == [i \in 1..Len(s) |-> Lower(s[i])]

RECURSIVE TextLess(_, _)
\* s < t for two strings
TextLess(s, t) ==
    IF t = <<>> THEN FALSE
    ELSE IF s = <<>> THEN TRUE
    ELSE IF Head(s) = Head(t) THEN TextLess(Tail(s), Tail(t))
    ELSE Rank(Head(s)) < Rank(Head(t))

\* a plausible slip: the key compares the names as they are, without lower()
KeyLessCaseSensitive(x, y) ==
    \/ x.is_dir /\ ~y.is_dir
    \/ x.is_dir = y.is_dir /\ TextLess(x.name, y.name)

\* the sort key (not x.is_dir(), x.name.lower()) of line 189
KeyLess(x, y) ==
    \/ x.is_dir /\ ~y.is_dir
    \/ x.is_dir = y.is_dir /\ TextLess(LowerText(x.name), LowerText(y.name))

\* the size column: lines 195-202
size_str(isdir, size) ==
    IF isdir THEN [tenths |-> 0, unit |-> "<DIR>"]
    ELSE IF size < KIB THEN [tenths |-> 10 * size, unit |-> "B"]
    ELSE IF size < KIB * KIB THEN [tenths |-> Tenths(size, KIB), unit |-> "KB"]
    ELSE [tenths |-> Tenths(size, KIB * KIB), unit |-> "MB"]

\* dir_path.iterdir(): the entries of directory d
Children(f, d) == {m \in DOMAIN f : m # <<>> /\ Parent(m) = d /\ f[m].kind # "none"}

\* what a followed entry is: a symlink is seen through to its target
Followed(f, m) == IF Node(f, m).kind = "link" THEN Node(f, Node(f, m).target) ELSE Node(f, m)

RECURSIVE SetToSeq(_)
SetToSeq(S) ==
    IF S = {} THEN <<>>
    ELSE LET x == CHOOSE x \in S : TRUE IN <<x>> \o SetToSeq(S \ {x})

\* one rendered line: the size column, the name, "/" after a directory
Entry(f, m) ==
    LET n == Followed(f, m) IN
    [name |-> m[Len(m)], is_dir |-> n.kind = "dir",
     size |-> size_str(n.kind = "dir", Size(n)),
     slash |-> n.kind = "dir"]

\* the guard and the existence and type checks: lines 167-176
ListDirectory(path) ==
    /\ fpc = "idle"
    /\ LET v == Guard(fs, path)
           c == Call("list", path, <<>>, <<>>, FALSE)
       IN  IF ~v.allowed THEN Returns(c, AccessDenied(v)) /\ touched' = FALSE
           ELSE IF ~exists(fs, path)
           THEN Returns(c, Plain("Directory not found")) /\ touched' = TRUE
           ELSE IF ~is_dir(fs, path)
           THEN Returns(c, Plain("Not a directory")) /\ touched' = TRUE
           ELSE fpc' = "checked" /\ fcall' = c /\ fres' = NoReply /\ touched' = TRUE
    /\ UNCHANGED <<infoVars, guardVars, execVars, expect, visited, meddled, todo, matches, opened>>

\* the try block: lines 178-208
ListScan ==
    /\ fpc = "checked"
    /\ fcall.op = "list"
    /\ LET d == Target(fs, fcall.path)
           items == Children(fs, d)
       IN  fres' =
             IF Node(fs, d).kind # "dir" \/ ~Node(fs, d).readable
                  \/ \E m \in items : Followed(fs, m).kind = "none"
             THEN Plain("Error listing directory")
             ELSE IF items = {} THEN Plain("Directory is empty")
             ELSE Reply("Contents of", "", <<>>, <<>>, <<>>,
                        SortSeq(SetToSeq({Entry(fs, m) : m \in items}), KeyLess),
                        NoInfo)
    /\ fpc' = "returned"
    /\ UNCHANGED <<infoVars, guardVars, execVars, fcall, touched, expect,
                   visited, meddled, todo, matches, opened>>

(***************************************************************************)
(* FilesToolkit.search_files                                               *)
(***************************************************************************)
\* the cap on the number of results
MaxResults == 100

\* "... (truncated at 100 results)"
Marker == <<".", ".", ".">>

DigitChars == <<"0", "1", "2", "3", "4", "5", "6", "7", "8", "9">>

RECURSIVE Digits(_)
\* str(k)
Digits(k) ==
    IF k < 10 THEN <<DigitChars[k + 1]>>
    ELSE Digits(k \div 10) \o <<DigitChars[(k % 10) + 1]>>

\* the k-th entry of the large tree under /t
BulkNode(k) == <<T, <<"e">> \o Digits(k)>>

\* the nodes of the small tree, in the order a traversal meets them
NodeSeq ==
    << <<A>>, <<A, F>>, <<AB>>, <<AB, F>>, <<H>>, <<T>>, <<T, D>>, <<T, D, F>>,
       <<T, F>>, <<T, L>> >>

\* the order in which a traversal meets the nodes of f: the small tree, then
\* the entries of the large tree by number
ScanSeq(f) ==
    NodeSeq \o [k \in 1..(Cardinality(DOMAIN f) - Cardinality(Nodes)) |-> BulkNode(k)]

\* fnmatch of a name against a pattern: literal characters, and "*" at the end
Glob(pattern, name) ==
    IF pattern # <<>> /\ pattern[Len(pattern)] = "*"
    THEN StartsWith(name, Front(pattern))
    ELSE name = pattern

\* every directory between base and m (exclusive) is a real directory: the
\* recursive walk does not descend through symlinks
Reached(f, base, m) ==
    \A k \in (Len(base) + 1)..(Len(m) - 1) : Node(f, SubSeq(m, 1, k)).kind = "dir"

RECURSIVE JoinText(_, _)
\* str(file_path) of an entry found below the base path
JoinText(text, parts) ==
    IF parts = <<>> THEN text
    ELSE JoinText((IF text = <<SEP>> THEN text ELSE text \o <<SEP>>) \o Head(parts),
                  Tail(parts))

\* base_path.rglob(pattern): the matching nodes below the base, in scan order
RGlob(f, path, pattern) ==
    LET base == Target(f, path)
        Hit(m) == /\ Len(m) > Len(base)
                  /\ relative_to(m, base)
                  /\ Node(f, m).kind # "none"
                  /\ Reached(f, base, m)
                  /\ Glob(pattern, m[Len(m)])
        found == SelectSeq(ScanSeq(f), Hit)
    IN  [i \in 1..Len(found) |->
            [node |-> found[i],
             text |-> JoinText(PathStr(PathParts(path)),
                               SubSeq(found[i], Len(base) + 1, Len(found[i])))]]

\* a plausible slip: the cap is tested with > instead of >=
AtCapStrict(ms) == Len(ms) > MaxResults

\* len(matches) >= 100
AtCap(ms) == Len(ms) >= MaxResults

\* lines 239-249: whether the file counts as a match
Matches(f, e, content) ==
    LET n == Followed(f, e.node) IN
    IF content = <<>> THEN TRUE
    ELSE /\ Size(n) <= max_file_size
         /\ n.readable
         /\ Contains(LowerText(Decode(n.data)), LowerText(content))

\* lines 241-242: the file is opened when a filter is given and its size is
\* within the limit
Opens(f, e, content) ==
    content # <<>> /\ Size(Followed(f, e.node)) <= max_file_size

\* a plausible slip: the paths the traversal finds are trusted as they come
RecheckSkipped(f, e) == TRUE

\* lines 235-237: the path found is put to the resolver again
Rechecked(f, e) == Guard(f, e.text).allowed

\* the guard, the existence check and the start of the traversal: lines
\* 221-231
SearchFiles(path, pattern, content) ==
    /\ fpc = "idle"
    /\ LET v == Guard(fs, path)
           c == Call("search", path, pattern, content, FALSE)
       IN  IF ~v.allowed
           THEN Returns(c, AccessDenied(v)) /\ touched' = FALSE /\ todo' = <<>>
           ELSE IF ~exists(fs, path)
           THEN Returns(c, Plain("Path not found")) /\ touched' = TRUE /\ todo' = <<>>
           ELSE /\ fpc' = "searching"
                /\ fcall' = c
                /\ fres' = NoReply
                /\ touched' = TRUE
                /\ todo' = RGlob(fs, path, pattern)
    /\ matches' = <<>>
    /\ opened' = {}
    /\ visited' = 0
    /\ UNCHANGED <<infoVars, guardVars, execVars, expect, meddled>>

\* one pass of the loop of lines 231-253, on the next entry of the traversal
SearchStep ==
    /\ fpc = "searching"
    /\ todo # <<>>
    /\ LET e == Head(todo)
           m == IF Matches(fs, e, fcall.content) THEN Append(matches, e.text)
                ELSE matches
       IN  IF Followed(fs, e.node).kind # "file" \/ ~Rechecked(fs, e)
           THEN fpc' = "searching" /\ matches' = matches /\ opened' = opened
           ELSE /\ opened' = IF Opens(fs, e, fcall.content) THEN opened \cup {e.text}
                              ELSE opened
                /\ IF AtCap(m)
                   THEN fpc' = "searched" /\ matches' = Append(m, Marker)
                   ELSE fpc' = "searching" /\ matches' = m
    /\ todo' = Tail(todo)
    /\ visited' = visited + 1
    /\ UNCHANGED <<infoVars, guardVars, execVars, fcall, fres, touched, expect, meddled>>

\* after the loop, left by its end or by the break: lines 255-258
SearchDone ==
    /\ fpc = "searched" \/ (fpc = "searching" /\ todo = <<>>)
    /\ fpc' = "returned"
    /\ fres' = IF matches = <<>> THEN Plain("No files found matching")
               ELSE Reply("Found", "", <<>>, <<>>, matches, <<>>, NoInfo)
    /\ UNCHANGED <<infoVars, guardVars, execVars, fcall, touched, expect, todo, matches,
                   opened, visited, meddled>>

(***************************************************************************)
(* FilesToolkit.file_info                                                  *)
(***************************************************************************)
\* the guard and the existence check: lines 271-277
FileInfoCall(path) ==
    /\ fpc = "idle"
    /\ LET v == Guard(fs, path)
           c == Call("info", path, <<>>, <<>>, FALSE)
       IN  IF ~v.allowed THEN Returns(c, AccessDenied(v)) /\ touched' = FALSE
           ELSE IF ~exists(fs, path)
           THEN Returns(c, Plain("File not found")) /\ touched' = TRUE
           ELSE fpc' = "checked" /\ fcall' = c /\ fres' = NoReply /\ touched' = TRUE
    /\ UNCHANGED <<infoVars, guardVars, execVars, expect, visited, meddled, todo, matches, opened>>

\* the try block: lines 279-299 (the modification time is left out)
FileInfoStat ==
    /\ fpc = "checked"
    /\ fcall.op = "info"
    /\ LET t == Target(fs, fcall.path)
           n == Node(fs, t)
       IN  fres' = IF n.kind = "none" THEN Plain("Error getting file info")
                   ELSE Reply("File", IF n.kind = "dir" THEN "Directory" ELSE "File",
                              <<t>>, <<>>, <<>>, <<>>, size_human(Size(n)))
    /\ fpc' = "returned"
    /\ UNCHANGED <<infoVars, guardVars, execVars, fcall, touched, expect,
                   visited, meddled, todo, matches, opened>>

(***************************************************************************)
(* FilesToolkit.delete_file                                                *)
(***************************************************************************)
\* the guard and the existence check: lines 310-316
DeleteFile(path) ==
    /\ fpc = "idle"
    /\ LET v == Guard(fs, path)
           c == Call("delete", path, <<>>, <<>>, FALSE)
       IN  IF ~v.allowed THEN Returns(c, AccessDenied(v)) /\ touched' = FALSE
           ELSE IF ~exists(fs, path)
           THEN Returns(c, Plain("File not found")) /\ touched' = TRUE
           ELSE fpc' = "checked" /\ fcall' = c /\ fres' = NoReply /\ touched' = TRUE
    /\ UNCHANGED <<infoVars, guardVars, execVars, expect, visited, meddled, todo, matches, opened>>

\* the try block: lines 318-326. shutil.rmtree refuses a symlink and a
\* missing path; Path.unlink removes the name itself, symlink or file
DeleteStep ==
    /\ fpc = "checked"
    /\ fcall.op = "delete"
    /\ LET t == Target(fs, fcall.path)
           l == LTarget(fs, fcall.path)
       IN  IF is_dir(fs, fcall.path)
           THEN IF Node(fs, l).kind = "link"
                THEN fres' = Plain("Error deleting") /\ fs' = fs
                ELSE fres' = Plain("Deleted directory") /\ fs' = RemoveTree(fs, t)
           ELSE IF Node(fs, l).kind \in {"file", "link"} /\ l \in DOMAIN fs
                THEN fres' = Plain("Deleted file") /\ fs' = [fs EXCEPT ![l] = NoNode]
                ELSE fres' = Plain("Error deleting") /\ fs' = fs
    /\ fpc' = "returned"
    /\ expect' = Forget(expect, fs, fs')
    /\ UNCHANGED <<infoVars, allowed_paths, blocked_paths, chk, execVars,
                   fcall, touched, visited, meddled, todo, matches, opened>>

(***************************************************************************)
(* Another actor on the host, between a call's checks and its later steps. *)
(***************************************************************************)
InFlight == fpc \in {"checked", "statted"}

\* the target of the call in flight is removed, with all below it
EnvRemove ==
    /\ InFlight
    /\ meddled < MaxMeddle
    /\ meddled' = meddled + 1
    /\ Node(fs, Target(fs, fcall.path)).kind # "none"
    /\ fs' = RemoveTree(fs, Target(fs, fcall.path))
    /\ expect' = Forget(expect, fs, fs')
    /\ UNCHANGED <<infoVars, allowed_paths, blocked_paths, chk, execVars, fpc, fcall, fres,
                   touched, visited, todo, matches, opened>>

\* the target file is replaced by a directory of the same name
EnvReplace ==
    /\ InFlight
    /\ meddled < MaxMeddle
    /\ meddled' = meddled + 1
    /\ Node(fs, Target(fs, fcall.path)).kind = "file"
    /\ fs' = [fs EXCEPT ![Target(fs, fcall.path)] = DirNode]
    /\ expect' = Forget(expect, fs, fs')
    /\ UNCHANGED <<infoVars, allowed_paths, blocked_paths, chk, execVars, fpc, fcall, fres,
                   touched, visited, todo, matches, opened>>

\* the target loses its permission bits
EnvChmod ==
    /\ InFlight
    /\ meddled < MaxMeddle
    /\ meddled' = meddled + 1
    /\ Node(fs, Target(fs, fcall.path)).kind \in {"file", "dir"}
    /\ Node(fs, Target(fs, fcall.path)).readable
    /\ fs' = [fs EXCEPT ![Target(fs, fcall.path)].readable = FALSE]
    /\ expect' = Forget(expect, fs, fs')
    /\ UNCHANGED <<infoVars, allowed_paths, blocked_paths, chk, execVars, fpc, fcall, fres,
                   touched, visited, todo, matches, opened>>

\* the caller takes the outcome; the toolkit is ready for the next call
FileFinish ==
    /\ fpc \in {"returned", "raised"}
    /\ fpc' = "idle"
    /\ fcall' = NoCall
    /\ fres' = NoReply
    /\ touched' = FALSE
    /\ todo' = <<>>
    /\ matches' = <<>>
    /\ opened' = {}
    /\ visited' = 0
    /\ UNCHANGED <<infoVars, guardVars, execVars, expect, meddled>>

FilesIdle ==
    /\ fpc = "idle"
    /\ fcall = NoCall
    /\ fres = NoReply
    /\ touched = FALSE
    /\ expect = NoExpect
    /\ todo = <<>>
    /\ matches = <<>>
    /\ opened = {}
    /\ visited = 0
    /\ meddled = 0

(***************************************************************************)
(* TerminalToolkit.__init__                                                *)
(***************************************************************************)
SP == " "
QUOTE == "\""

\* the default blocked patterns ("rm -rf /", ...), in the model's alphabet
DefaultBlockedCommands == << <<"r", SP, SEP>> >>

\* allowed_commands or []
InitAllowedCommands(given) == given

\* blocked_commands or [defaults]
InitBlockedCommands(given) == IF given = <<>> THEN DefaultBlockedCommands ELSE given

(***************************************************************************)
(* TerminalToolkit._is_command_allowed                                     *)
(***************************************************************************)
RECURSIVE Lex(_, _, _, _, _)
\* shlex.shlex(s, posix=True) with whitespace_split, read from position i:
\* state is " " between tokens, "a" inside a word, QUOTE inside a quotation;
\* tok is the token read so far and out the tokens already emitted.
\* Reaching the end inside a quotation raises ValueError.
Lex(s, i, state, tok, out) ==
    IF i > Len(s)
    THEN IF state = QUOTE THEN [ok |-> FALSE, tokens |-> <<>>]
         ELSE IF state = "a" THEN [ok |-> TRUE, tokens |-> Append(out, tok)]
         ELSE [ok |-> TRUE, tokens |-> out]
    ELSE LET c == s[i] IN
         IF state = QUOTE
         THEN IF c = QUOTE THEN Lex(s, i + 1, "a", tok, out)
              ELSE Lex(s, i + 1, QUOTE, Append(tok, c), out)
         ELSE IF c = SP
         THEN IF state = "a" THEN Lex(s, i + 1, " ", <<>>, Append(out, tok))
              ELSE Lex(s, i + 1, " ", <<>>, out)
         ELSE IF c = QUOTE THEN Lex(s, i + 1, QUOTE, tok, out)
         ELSE Lex(s, i + 1, "a", Append(tok, c), out)

\* shlex.split(command)
shlex_split(s) == Lex(s, 1, " ", <<>>, <<>>)

\* base_cmd == allowed or base_cmd.endswith(f"/{allowed}")
BaseMatches(base, entry) == base = entry \/ EndsWith(base, <<SEP>> \o entry)

Decision(raised, allowed, tag, detail) ==
    [raised |-> raised, allowed |-> allowed, tag |-> tag, detail |-> detail]

\* a plausible slip: the allow-list is consulted before the blocked patterns
is_command_allowed_allow_first(allow, block, command) ==
    LET parts == shlex_split(command) IN
    IF allow # <<>> /\ parts.ok /\ parts.tokens # <<>>
          /\ \E i \in 1..Len(allow) : BaseMatches(parts.tokens[1], allow[i])
    THEN Decision(FALSE, TRUE, "InList", parts.tokens[1])
    ELSE IF \E i \in 1..Len(block) : Contains(command, block[i])
    THEN Decision(FALSE, FALSE, "BlockedPattern",
                  block[CHOOSE i \in 1..Len(block) : Contains(command, block[i])])
    ELSE IF allow = <<>> THEN Decision(FALSE, TRUE, "NoRestrictions", <<>>)
    ELSE IF ~parts.ok THEN Decision(TRUE, FALSE, "ValueError", <<>>)
    ELSE IF parts.tokens = <<>> THEN Decision(FALSE, FALSE, "Empty", <<>>)
    ELSE Decision(FALSE, FALSE, "NotInList", parts.tokens[1])

is_command_allowed(allow, block, command) ==
    LET hit == {i \in 1..Len(block) : Contains(command, block[i])}
        parts == shlex_split(command)
    IN  IF hit # {}
        THEN Decision(FALSE, FALSE, "BlockedPattern",
                      block[CHOOSE i \in hit : \A j \in hit : i <= j])
        ELSE IF allow = <<>> THEN Decision(FALSE, TRUE, "NoRestrictions", <<>>)
        ELSE IF ~parts.ok THEN Decision(TRUE, FALSE, "ValueError", <<>>)
        ELSE IF parts.tokens = <<>> THEN Decision(FALSE, FALSE, "Empty", <<>>)
        ELSE IF \E i \in 1..Len(allow) : BaseMatches(parts.tokens[1], allow[i])
        THEN Decision(FALSE, TRUE, "InList", parts.tokens[1])
        ELSE Decision(FALSE, FALSE, "NotInList", parts.tokens[1])

(***************************************************************************)
(* TerminalToolkit.execute                                                 *)
(***************************************************************************)
CommandResult(out, err, code, command) ==
    [stdout |-> out, stderr |-> err, return_code |-> code, command |-> command]

\* the text of a stream: a message of the toolkit (text, with what it names)
\* or the child's own output (detail, under an empty text)
Message(text, tag, detail, seconds) ==
    [text |-> text, tag |-> tag, detail |-> detail, seconds |-> seconds]

Output(chars) == Message("", "", chars, 0)

NoResult == CommandResult(Output(<<>>), Output(<<>>), 0, <<>>)

\* f"Command not allowed: {reason}"
NotAllowedText(d) == Message("Command not allowed", d.tag, d.detail, 0)

\* f"Command timed out after {self.timeout} seconds"
TimedOutText(t) == Message("Command timed out after", "", <<>>, t)

\* f"Error executing command: {str(e)}"
ErrorText(e) == Message("Error executing command", e, <<>>, 0)

RECURSIVE LStrip(_)
LStrip(s) == IF s # <<>> /\ Head(s) = SP THEN LStrip(Tail(s)) ELSE s

RECURSIVE RStrip(_)
RStrip(s) == IF s # <<>> /\ s[Len(s)] = SP THEN RStrip(SubSeq(s, 1, Len(s) - 1)) ELSE s

\* str.strip
Strip(s) == RStrip(LStrip(s))

\* what a finished child reports: its wait status as subprocess gives it (the
\* exit status 0..255, or -N when signal N ended it) and its two streams
ChildOutcomes ==
    { [status |-> 0, out |-> <<SP, "o", SP>>, err |-> <<>>],
      [status |-> 0, out |-> <<>>, err |-> <<>>],
      [status |-> 1, out |-> <<>>, err |-> <<"e", SP>>],
      [status |-> 255, out |-> <<"o">>, err |-> <<>>],
      [status |-> -1, out |-> <<>>, err |-> <<>>],
      [status |-> -2, out |-> <<>>, err |-> <<>>],
      [status |-> -3, out |-> <<>>, err |-> <<>>],
      [status |-> -9, out |-> <<"o">>, err |-> <<>>] }

\* the faults subprocess.run can raise other than TimeoutExpired
SpawnFaults == {"FileNotFoundError"}
RunFaults == {"UnicodeDecodeError"}

CmdChars == {"l", "r", SP, SEP, QUOTE}

Commands == SeqsUpTo(CmdChars, MaxCmdLen)

\* execute(command), up to the return of the policy check or the spawn of the
\* child: lines 104-121
Execute(command) ==
    /\ xpc = "idle"
    /\ xcmd' = command
    /\ elapsed' = 0
    /\ LET d == is_command_allowed(allowed_commands, blocked_commands, command) IN
       \/ /\ d.raised
          /\ xpc' = "raised"
          /\ xres' = NoResult
          /\ xexit' = "none"
          /\ child' = "none"
          /\ spawned' = 0
       \/ /\ ~d.raised /\ ~d.allowed
          /\ xpc' = "returned"
          /\ xres' = CommandResult(Output(<<>>), NotAllowedText(d), -1, command)
          /\ xexit' = "denied"
          /\ child' = "none"
          /\ spawned' = 0
       \/ /\ ~d.raised /\ d.allowed
          /\ xpc' = "running"
          /\ xres' = NoResult
          /\ xexit' = "none"
          /\ child' = "running"
          /\ spawned' = 1
       \/ /\ ~d.raised /\ d.allowed
          /\ \E e \in SpawnFaults :
                xres' = CommandResult(Output(<<>>), ErrorText(e), -3, command)
          /\ xpc' = "returned"
          /\ xexit' = "failure"
          /\ child' = "none"
          /\ spawned' = 0
    /\ UNCHANGED <<infoVars, allowed_commands, blocked_commands, timeout, guardVars, fileVars>>

\* the child finishes on its own before the deadline: lines 122-127
ChildExit(o) ==
    /\ xpc = "running"
    /\ elapsed < timeout
    /\ xpc' = "returned"
    /\ xres' = CommandResult(Output(Strip(o.out)), Output(Strip(o.err)), o.status, xcmd)
    /\ xexit' = "completed"
    /\ child' = "exited"
    /\ UNCHANGED <<infoVars, allowed_commands, blocked_commands, timeout, xcmd, elapsed,
                   spawned, guardVars, fileVars>>

\* subprocess.run raises something other than TimeoutExpired while the child
\* runs; its context manager kills and reaps the child: lines 135-141
RunFailure(e) ==
    /\ xpc = "running"
    /\ elapsed < timeout
    /\ xpc' = "returned"
    /\ xres' = CommandResult(Output(<<>>), ErrorText(e), -3, xcmd)
    /\ xexit' = "failure"
    /\ child' = "killed"
    /\ UNCHANGED <<infoVars, allowed_commands, blocked_commands, timeout, xcmd, elapsed,
                   spawned, guardVars, fileVars>>

\* the clock advances while execute waits for the child
Tick ==
    /\ xpc = "running"
    /\ elapsed < timeout
    /\ elapsed' = elapsed + 1
    /\ UNCHANGED <<infoVars, allowed_commands, blocked_commands, timeout, xpc, xcmd, xres,
                   xexit, child, spawned, guardVars, fileVars>>

\* a plausible slip: the child is waited for without a deadline
WaitWithoutTimeout ==
    /\ xpc = "running"
    /\ elapsed = timeout
    /\ UNCHANGED vars

\* the deadline passes with the child still running: subprocess.run kills the
\* child and raises TimeoutExpired: lines 128-134
TimeoutExpired ==
    /\ xpc = "running"
    /\ elapsed = timeout
    /\ xpc' = "returned"
    /\ xres' = CommandResult(Output(<<>>), TimedOutText(timeout), -2, xcmd)
    /\ xexit' = "timeout"
    /\ child' = "killed"
    /\ UNCHANGED <<infoVars, allowed_commands, blocked_commands, timeout, xcmd, elapsed,
                   spawned, guardVars, fileVars>>

\* the caller takes the outcome; the toolkit is ready for the next call
Finish ==
    /\ xpc \in {"returned", "raised"}
    /\ xpc' = "idle"
    /\ xcmd' = <<>>
    /\ xres' = NoResult
    /\ xexit' = "none"
    /\ child' = "none"
    /\ elapsed' = 0
    /\ spawned' = 0
    /\ UNCHANGED <<infoVars, allowed_commands, blocked_commands, timeout, guardVars, fileVars>>

\* the allowed_commands arguments tried
AllowedCommandsGiven == { <<>>, << <<"l">> >>, << <<"r">>, <<"l">> >> }

\* the blocked_commands arguments tried (the empty list selects the defaults)
BlockedCommandsGiven == { <<>>, << <<"r">>, <<SP, SP>> >> }

ExecIdle ==
    /\ xpc = "idle"
    /\ xcmd = <<>>
    /\ xres = NoResult
    /\ xexit = "none"
    /\ child = "none"
    /\ elapsed = 0
    /\ spawned = 0

(***************************************************************************)
(* The path guard on its own.                                              *)
(***************************************************************************)
InitGuard ==
    /\ fs = InitFs
    /\ \E given \in AllowedGiven : allowed_paths = InitAllowed(InitFs, given)
    /\ \E given \in BlockedGiven : blocked_paths = InitBlocked(InitFs, given)
    /\ \E path \in GuardPaths : chk = Pending(path)
    /\ allowed_commands = <<>>
    /\ blocked_commands = DefaultBlockedCommands
    /\ timeout = 1
    /\ ExecIdle
    /\ InfoIdle
    /\ FilesIdle

NextGuard == CheckPath

SpecGuard == InitGuard /\ [][NextGuard]_vars

(***************************************************************************)
(* execute on its own.                                                     *)
(***************************************************************************)
InitExec ==
    /\ \E given \in AllowedCommandsGiven : allowed_commands = InitAllowedCommands(given)
    /\ \E given \in BlockedCommandsGiven : blocked_commands = InitBlockedCommands(given)
    /\ timeout \in 1..MaxTimeout
    /\ ExecIdle
    /\ InfoIdle
    /\ GuardIdle
    /\ FilesIdle

NextExec ==
    \/ \E command \in Commands : Execute(command)
    \/ \E o \in ChildOutcomes : ChildExit(o)
    \/ \E e \in RunFaults : RunFailure(e)
    \/ Tick
    \/ TimeoutExpired
    \/ Finish

SpecExec == InitExec /\ [][NextExec]_vars

\* the clock keeps advancing, and the wait for the child ends at its deadline
FairSpecExec == SpecExec /\ WF_vars(Tick) /\ WF_vars(TimeoutExpired)

(***************************************************************************)
(* The six file operations, with another actor on the host.                *)
(***************************************************************************)
\* the path arguments tried
FilePaths ==
    { PathStr(<<T, F>>), PathStr(<<T, D, F>>), PathStr(<<T, L, F>>), PathStr(<<T>>),
      PathStr(<<A, F>>), PathStr(<<AB, F>>), PathStr(<<T, DOTDOT, A>>),
      <<SEP, "t", SEP, NUL>> }

\* the contents tried
Contents == { <<"x">>, <<"x", "x">> }

\* the name patterns and content filters tried by search_files
Patterns == { <<"*">>, <<"f">> }
Filters == { <<>>, <<"f">> }

\* the (allowed_paths, blocked_paths) arguments tried
FilePolicies ==
    { <<<<>>, <<>>>>, <<<<PathStr(<<T>>)>>, <<PathStr(<<T, D>>)>>>> }

InitFiles ==
    /\ fs = InitFs
    /\ \E given \in FilePolicies :
          /\ allowed_paths = InitAllowed(InitFs, given[1])
          /\ blocked_paths = InitBlocked(InitFs, given[2])
    /\ chk = NoCheck
    /\ FilesIdle
    /\ allowed_commands = <<>>
    /\ blocked_commands = DefaultBlockedCommands
    /\ timeout = 1
    /\ ExecIdle
    /\ InfoIdle

NextFiles ==
    \/ \E path \in FilePaths : ReadFile(path)
    \/ ReadStat
    \/ ReadOpen
    \/ \E path \in FilePaths, content \in Contents, append \in BOOLEAN :
          WriteFile(path, content, append)
    \/ \E path \in FilePaths : ListDirectory(path)
    \/ ListScan
    \/ \E path \in FilePaths, pattern \in Patterns, content \in Filters :
          SearchFiles(path, pattern, content)
    \/ SearchStep
    \/ SearchDone
    \/ \E path \in FilePaths : FileInfoCall(path)
    \/ FileInfoStat
    \/ \E path \in FilePaths : DeleteFile(path)
    \/ DeleteStep
    \/ EnvRemove
    \/ EnvReplace
    \/ EnvChmod
    \/ FileFinish

SpecFiles == InitFiles /\ [][NextFiles]_vars

(***************************************************************************)
(* Writes followed by reads, with nobody else on the host.                 *)
(***************************************************************************)
RoundTripPaths == { PathStr(<<T, F>>), PathStr(<<T, D, F>>), <<"f">> }

RoundTripContents == { <<>>, <<"x">>, <<CR>>, <<LF>>, <<"x", CR>>, <<"x", "x">> }

NextRoundTrip ==
    \/ \E path \in RoundTripPaths, content \in RoundTripContents, append \in BOOLEAN :
          WriteFile(path, content, append)
    \/ \E path \in RoundTripPaths : ReadFile(path)
    \/ ReadStat
    \/ ReadOpen
    \/ FileFinish

SpecRoundTrip == InitFiles /\ [][NextRoundTrip]_vars

(***************************************************************************)
(* search_files on a large tree.                                           *)
(***************************************************************************)
\* a large tree under /t: the directory /t/d with a file in it and n
\* entries, every DirEvery-th a directory, every linkEvery-th of the others
\* a symlink to the file /a/f, the rest files, of one content or (vary) of
\* several contents and sizes
Layouts ==
    [n : 0..MaxEntries, linkEvery : {0, LinkEvery}, vary : BOOLEAN]

Every(step, k) == step > 0 /\ k % step = 0

DigitValue(c) == CHOOSE d \in 0..9 : DigitChars[d + 1] = c

RECURSIVE Number(_)
Number(chars) ==
    IF chars = <<>> THEN 0
    ELSE 10 * Number(Front(chars)) + DigitValue(chars[Len(chars)])

BulkFs(lay) ==
    [m \in Nodes \cup {BulkNode(k) : k \in 1..lay.n} |->
        IF m = <<T, D>> THEN DirNode
        ELSE IF m = <<T, D, F>> THEN FileNode(<<"F">>)
        ELSE IF m \in Nodes THEN InitFs[m]
        ELSE LET k == Number(Tail(m[2])) IN
             IF Every(DirEvery, k) THEN DirNode
             ELSE IF Every(lay.linkEvery, k) THEN LinkNode(<<A, F>>)
             ELSE IF lay.vary /\ k % 4 = 0 THEN FileNode(<<"f", "F">>)
             ELSE IF lay.vary /\ k % 3 = 0 THEN FileNode(<<"x">>)
             ELSE FileNode(<<"F">>)]

SearchPatterns == { <<"*">>, <<"e", "*">> }

InitSearch ==
    /\ \E lay \in Layouts : fs = BulkFs(lay)
    /\ \E given \in FilePolicies :
          /\ allowed_paths = InitAllowed(InitFs, given[1])
          /\ blocked_paths = InitBlocked(InitFs, given[2])
    /\ chk = NoCheck
    /\ FilesIdle
    /\ allowed_commands = <<>>
    /\ blocked_commands = DefaultBlockedCommands
    /\ timeout = 1
    /\ ExecIdle
    /\ InfoIdle

NextSearch ==
    \/ \E pattern \in SearchPatterns, content \in Filters :
          SearchFiles(PathStr(<<T>>), pattern, content)
    \/ SearchStep
    \/ SearchDone
    \/ FileFinish

SpecSearch == InitSearch /\ [][NextSearch]_vars

(***************************************************************************)
(* list_directory on directories of mixed entries.                         *)
(***************************************************************************)
\* the names an entry of the home directory may have, in both cases
ListNames == { <<"D">>, <<"a">>, <<"F">>, <<"e">>, <<"d">> }

\* what stands under a name: nothing, a file, a directory, a symlink to a
\* directory or a symlink to a file
ListKinds == {"none", "file", "dir", "linkdir", "linkfile"}

ListFs(kinds) ==
    [m \in Nodes \cup {<<H, n>> : n \in ListNames} |->
        IF m \in Nodes THEN InitFs[m]
        ELSE CASE kinds[m[2]] = "none" -> NoNode
               [] kinds[m[2]] = "file" -> FileNode(<<"x">>)
               [] kinds[m[2]] = "dir" -> DirNode
               [] kinds[m[2]] = "linkdir" -> LinkNode(<<A>>)
               [] OTHER -> LinkNode(<<A, F>>)]

ListPaths == { PathStr(<<H>>), PathStr(<<T>>), PathStr(<<T, F>>), PathStr(<<A>>) }

InitList ==
    /\ \E kinds \in [ListNames -> ListKinds] : fs = ListFs(kinds)
    /\ allowed_paths = InitAllowed(InitFs, <<>>)
    /\ blocked_paths = InitBlocked(InitFs, <<>>)
    /\ chk = NoCheck
    /\ FilesIdle
    /\ allowed_commands = <<>>
    /\ blocked_commands = DefaultBlockedCommands
    /\ timeout = 1
    /\ ExecIdle
    /\ InfoIdle

NextList ==
    \/ \E path \in ListPaths : ListDirectory(path)
    \/ ListScan
    \/ FileFinish

SpecList == InitList /\ [][NextList]_vars

(***************************************************************************)
(* size_human on FileInfo objects.                                         *)
(***************************************************************************)
InitInfo ==
    /\ fs = InitFs
    /\ allowed_paths = InitAllowed(InitFs, <<>>)
    /\ blocked_paths = InitBlocked(InitFs, <<>>)
    /\ chk = NoCheck
    /\ FilesIdle
    /\ allowed_commands = <<>>
    /\ blocked_commands = DefaultBlockedCommands
    /\ timeout = 1
    /\ ExecIdle
    /\ \E size \in InfoSizes : info = FileInfo(size)
    /\ shown = <<>>

NextInfo ==
    \/ \E size \in InfoSizes : Construct(size)
    \/ SizeHuman

SpecInfo == InitInfo /\ [][NextInfo]_vars

(***************************************************************************)
(* Properties of the path guard.                                           *)
(***************************************************************************)
\* the text of a directory with its closing separator: "/", "/a/", "/a/b/"
DirText(p) == IF p = <<>> THEN <<SEP>> ELSE PathStr(p) \o <<SEP>>

\* p is the directory d or lies below it, read off the two texts
Inside(p, d) == StartsWith(DirText(p), DirText(d))

InsideAny(p, list) == \E i \in 1..Len(list) : Inside(p, list[i])

Checked == chk.res.tag # "Pending" /\ chk.resolved.ok

\* C1: a path whose canonical form is a blocked directory or lies below one
\* is denied, with the blocked directory as the reason, whether or not it
\* also lies under an allowed directory.
C1_BlockedWins ==
    (Checked /\ InsideAny(chk.resolved.path, blocked_paths))
        => (~chk.res.allowed /\ chk.res.tag = "Blocked")

\* a denied path that lies under a blocked and under an allowed directory
C1_Witness ==
    /\ Checked
    /\ InsideAny(chk.resolved.path, blocked_paths)
    /\ InsideAny(chk.resolved.path, allowed_paths)
    /\ ~chk.res.allowed

\* C2: containment is by whole components: the guard reports a path as
\* blocked exactly when a blocked directory's components lead the path's,
\* names such a directory, and otherwise decides by the allowed set alone.
C2_SegmentExact ==
    Checked =>
        /\ (chk.res.tag = "Blocked") <=> InsideAny(chk.resolved.path, blocked_paths)
        /\ (chk.res.tag = "Blocked") => Inside(chk.resolved.path, chk.res.dirs[1])
        /\ ~InsideAny(chk.resolved.path, blocked_paths)
              => (chk.res.allowed <=> InsideAny(chk.resolved.path, allowed_paths))

\* /ab/f with /a blocked: not taken for a descendant of /a, and allowed
C2_Witness ==
    /\ Checked
    /\ chk.resolved.path = <<AB, F>>
    /\ \E i \in 1..Len(blocked_paths) : blocked_paths[i] = <<A>>
    /\ chk.res.tag = "Within"

(***************************************************************************)
(* Properties of execute.                                                  *)
(***************************************************************************)
InCall == xpc \in {"running", "returned"}

\* the command holds a blocked pattern as a literal substring
HoldsBlockedPattern(command) ==
    \E i \in 1..Len(blocked_commands) : Contains(command, blocked_commands[i])

\* the allow-list is set and the command's first word matches no entry of it
\* (or the command has no word at all)
BaseNotListed(command) ==
    /\ allowed_commands # <<>>
    /\ shlex_split(command).ok
    /\ \/ shlex_split(command).tokens = <<>>
       \/ \A i \in 1..Len(allowed_commands) :
             ~BaseMatches(shlex_split(command).tokens[1], allowed_commands[i])

\* C3: a command the matcher denies (it holds a blocked pattern, whatever the
\* allow-list; or the allow-list is set and the base command matches no
\* entry) is answered with return code -1, empty stdout and the denial in
\* stderr, and no child process is spawned during the call.
C3_DeniedNeverSpawns ==
    (InCall /\ (HoldsBlockedPattern(xcmd) \/ BaseNotListed(xcmd)))
        => /\ xpc = "returned"
           /\ xres.return_code = -1
           /\ xres.stdout = Output(<<>>)
           /\ xres.stderr.text = "Command not allowed"
           /\ xres.stderr.tag \in {"BlockedPattern", "Empty", "NotInList"}
           /\ HoldsBlockedPattern(xcmd) <=> xres.stderr.tag = "BlockedPattern"
           /\ xres.command = xcmd
           /\ spawned = 0
           /\ child = "none"

\* a command whose base is on the allow-list but which holds a blocked
\* pattern is denied without a spawn
C3_Witness ==
    /\ xpc = "returned"
    /\ HoldsBlockedPattern(xcmd)
    /\ allowed_commands # <<>>
    /\ shlex_split(xcmd).ok /\ shlex_split(xcmd).tokens # <<>>
    /\ \E i \in 1..Len(allowed_commands) :
          BaseMatches(shlex_split(xcmd).tokens[1], allowed_commands[i])
    /\ xres.return_code = -1
    /\ spawned = 0

\* C4: execute returns a CommandResult for every command and every policy:
\* no fault of the policy check, the tokenization, the spawn or the run
\* reaches the caller.
C4_ExecuteNeverRaises == xpc # "raised"

\* C8: -1 is returned only on a policy denial, -2 only on a timeout, -3 only
\* on a spawn or run failure; a child that finished on its own never yields
\* one of the three.
C8_ReservedCodes ==
    xpc = "returned" =>
        /\ xres.return_code = -1 => xexit = "denied"
        /\ xres.return_code = -2 => xexit = "timeout"
        /\ xres.return_code = -3 => xexit = "failure"
        /\ xexit = "completed" => xres.return_code \notin {-1, -2, -3}

\* C9: a child still running at the deadline is killed and the call returns
\* -2 with empty stdout and a message naming the configured timeout; execute
\* never waits past the deadline; and every call that spawned a child
\* returns.
C9_TimeoutBounded ==
    /\ [][(xpc = "running" /\ elapsed = timeout)
            => /\ xpc' = "returned"
               /\ child' = "killed"
               /\ xres' = CommandResult(Output(<<>>), TimedOutText(timeout), -2, xcmd)]_vars
    /\ [](xpc = "running" => elapsed <= timeout)
    /\ [](xexit = "timeout" => xres.stderr = TimedOutText(timeout))
    /\ (xpc = "running" ~> xpc = "returned")

\* a call that ran into its deadline
C9_Witness ==
    /\ xpc = "returned"
    /\ xexit = "timeout"
    /\ elapsed = timeout
    /\ child = "killed"
    /\ xres.return_code = -2

(***************************************************************************)
(* Properties of the file operations.                                      *)
(***************************************************************************)
\* C5: each of the six file operations returns a string, whatever the path
\* and whatever another actor does to the target between the operation's
\* checks and its later stat, open or delete: no fault reaches the caller.
C5_FileOpsNeverRaise == fpc # "raised"

\* the resolver denies the path
Denies(f, path) == ~is_path_allowed(f, allowed_paths, blocked_paths, path).allowed

\* C6: an operation whose path the resolver denies returns the denial at
\* once, having examined and opened nothing, and leaves the filesystem as it
\* was (no file or directory created, changed or removed).
C6_DeniedLeavesFilesystem ==
    [][(fpc = "idle" /\ fpc' # "idle" /\ Denies(fs, fcall'.path))
          => /\ fpc' = "returned"
             /\ fres' = AccessDenied(is_path_allowed(fs, allowed_paths, blocked_paths,
                                                     fcall'.path))
             /\ fs' = fs
             /\ ~touched']_vars

\* a denied write to a blocked path whose parent directory does not exist
C6_Witness ==
    /\ fpc = "returned"
    /\ fcall.op = "write"
    /\ fres.tag = "Access denied"
    /\ fres.reason = "Blocked"
    /\ Node(fs, ParentTarget(fs, fcall.path)).kind = "none"

\* C7: a read (no max_lines) of a permitted path returns exactly what the
\* writes before it put there: the content of an overwrite, or the contents
\* of a write and of the appends after it, in order.
C7_RoundTrip ==
    (fpc = "returned" /\ fcall.op = "read" /\ expect.known
        /\ Target(fs, fcall.path) = expect.node)
        => (fres.tag = "Content" /\ fres.text = expect.data)

\* the files a search below the path may list: reached without passing a
\* symlinked directory, named to the pattern, regular files behind any final
\* symlink, canonically outside every blocked and inside an allowed
\* directory, and holding the filter text (in any case) within the size limit
PermittedMatches(f, path, pattern, content) ==
    {m \in DOMAIN f :
        /\ m # Target(f, path)
        /\ Inside(m, Target(f, path))
        /\ Reached(f, Target(f, path), m)
        /\ Glob(pattern, m[Len(m)])
        /\ Followed(f, m).kind = "file"
        /\ LET canon == IF f[m].kind = "link" THEN f[m].target ELSE m IN
              ~InsideAny(canon, blocked_paths) /\ InsideAny(canon, allowed_paths)
        /\ content # <<>> =>
              /\ Len(Followed(f, m).data) <= max_file_size
              /\ Contains(LowerText(Decode(Followed(f, m).data)), LowerText(content))}

IsPathLine(x) == x # Marker

\* C10: a search result never lists more than 100 files; with more than 100
\* permitted matches it lists exactly 100 paths and then one truncation
\* marker, and the traversal ends at the 100th match.
C10_SearchCap ==
    (fpc = "returned" /\ fcall.op = "search"
        /\ fres.tag \in {"Found", "No files found matching"})
        => /\ Len(SelectSeq(fres.names, IsPathLine)) <= MaxResults
           /\ Cardinality(PermittedMatches(fs, fcall.path, fcall.pattern, fcall.content))
                 > MaxResults
              => /\ fres.tag = "Found"
                 /\ Len(fres.names) = MaxResults + 1
                 /\ fres.names[MaxResults + 1] = Marker
                 /\ \A i \in 1..MaxResults : fres.names[i] # Marker
                 /\ visited < Len(RGlob(fs, fcall.path, fcall.pattern))
                 /\ RGlob(fs, fcall.path, fcall.pattern)[visited].text
                       = fres.names[MaxResults]

\* a truncated result of a search with a content filter over a tree that
\* also holds directories and symlinks out of the allowed area, passed over
\* before the 100th match
C10_Witness ==
    /\ fpc = "returned"
    /\ fcall.op = "search"
    /\ fcall.content # <<>>
    /\ Len(fres.names) = MaxResults + 1
    /\ fres.names[MaxResults + 1] = Marker
    /\ visited > MaxResults
    /\ todo # <<>>
    /\ \E m \in DOMAIN fs : fs[m].kind = "link" /\ m # <<T, L>>

(***************************************************************************)
(* Properties of the command matcher.                                      *)
(***************************************************************************)
\* the matcher let the command of the call through: a child was spawned, or
\* the spawn was tried and failed
MatcherAllowed == xpc = "running" \/ xexit \in {"completed", "timeout", "failure"}

\* the first word of the command is an entry of the allow-list, or ends
\* with "/" and an entry
BaseListed(command) ==
    /\ shlex_split(command).ok
    /\ shlex_split(command).tokens # <<>>
    /\ \E i \in 1..Len(allowed_commands) :
          BaseMatches(shlex_split(command).tokens[1], allowed_commands[i])

\* C12: a command free of blocked patterns is allowed under an empty
\* allow-list; under a non-empty one it is allowed exactly when its first
\* word is an entry or ends with "/" and an entry, denied as an empty
\* command when it has no words, and otherwise denied with the unmatched
\* base command named.
C12_MatcherDecision ==
    (xpc # "idle" /\ ~HoldsBlockedPattern(xcmd))
        => IF allowed_commands = <<>> THEN MatcherAllowed
           ELSE /\ MatcherAllowed <=> BaseListed(xcmd)
                /\ ~BaseListed(xcmd)
                     => /\ xexit = "denied"
                        /\ xres.stderr.text = "Command not allowed"
                        /\ IF shlex_split(xcmd).tokens = <<>>
                           THEN xres.stderr.tag = "Empty"
                           ELSE /\ xres.stderr.tag = "NotInList"
                                /\ xres.stderr.detail = shlex_split(xcmd).tokens[1]

(***************************************************************************)
(* Properties of list_directory.                                           *)
(***************************************************************************)
\* whether the entry of that name in the listed directory is a directory
IsDirEntry(name) == Followed(fs, Target(fs, fcall.path) \o <<name>>).kind = "dir"

Listed == fpc = "returned" /\ fcall.op = "list" /\ fres.tag = "Contents of"

\* C11: a listing of an allowed, existing, non-empty directory holds every
\* entry once, every directory before every non-directory, each group in
\* case-insensitive name order, and "/" after exactly the directories, which
\* show <DIR> in the size column.
C11_ListOrder ==
    Listed =>
        LET es == fres.entries
            d  == Target(fs, fcall.path)
        IN  /\ Len(es) = Cardinality(Children(fs, d))
            /\ {es[i].name : i \in 1..Len(es)} = {m[Len(m)] : m \in Children(fs, d)}
            /\ \A i, j \in 1..Len(es) :
                  i < j => /\ ~(IsDirEntry(es[j].name) /\ ~IsDirEntry(es[i].name))
                           /\ IsDirEntry(es[i].name) = IsDirEntry(es[j].name)
                                => ~TextLess(LowerText(es[j].name), LowerText(es[i].name))
            /\ \A i \in 1..Len(es) :
                  /\ es[i].slash = IsDirEntry(es[i].name)
                  /\ (es[i].size.unit = "<DIR>") = IsDirEntry(es[i].name)

\* a listing in which a directory follows a file by name yet stands before
\* it, and an upper-case name stands after a lower-case one
C11_Witness ==
    /\ Listed
    /\ \E i, j \in 1..Len(fres.entries) :
          /\ i < j
          /\ IsDirEntry(fres.entries[i].name) /\ ~IsDirEntry(fres.entries[j].name)
          /\ TextLess(LowerText(fres.entries[j].name), LowerText(fres.entries[i].name))
    /\ \E i, j \in 1..Len(fres.entries) :
          /\ i < j
          /\ IsDirEntry(fres.entries[i].name) = IsDirEntry(fres.entries[j].name)
          /\ TextLess(fres.entries[j].name, fres.entries[i].name)

(***************************************************************************)
(* Properties of the paths a search lists and opens.                       *)
(***************************************************************************)
\* the canonical form of the path lies in or below an allowed directory and
\* in or below no blocked directory
Permitted(p) ==
    /\ Resolve(fs, p).ok
    /\ ~InsideAny(Resolve(fs, p).path, blocked_paths)
    /\ InsideAny(Resolve(fs, p).path, allowed_paths)

\* the files the traversal of the call comes upon
Discovered ==
    LET found == RGlob(fs, fcall.path, fcall.pattern) IN
    {found[i] : i \in {k \in 1..Len(found) : Followed(fs, found[k].node).kind = "file"}}

\* C13: every path a search lists, and every path it opens for the content
\* filter, is one the resolver allows: a file found whose canonical path is
\* under a blocked directory or outside every allowed one is neither listed
\* nor opened.
C13_SearchRechecks ==
    (fpc = "returned" /\ fcall.op = "search")
        => /\ \A p \in opened : Permitted(p)
           /\ \A i \in 1..Len(fres.names) :
                 fres.names[i] # Marker => Permitted(fres.names[i])
           /\ \A e \in Discovered :
                 ~Permitted(e.text)
                    => /\ e.text \notin opened
                       /\ \A i \in 1..Len(fres.names) : fres.names[i] # e.text

\* a filtered search that listed and opened files, over a tree holding a
\* file below a blocked directory and a symlink to a file outside every
\* allowed directory
C13_Witness ==
    /\ fpc = "returned"
    /\ fcall.op = "search"
    /\ fcall.content # <<>>
    /\ fres.tag = "Found"
    /\ opened # {}
    /\ \E e \in Discovered :
          /\ fs[e.node].kind = "file"
          /\ InsideAny(e.node, blocked_paths)
    /\ \E e \in Discovered :
          /\ fs[e.node].kind = "link"
          /\ ~InsideAny(fs[e.node].target, blocked_paths)
          /\ ~InsideAny(fs[e.node].target, allowed_paths)

(***************************************************************************)
(* Properties of FileInfo.size_human.                                      *)
(***************************************************************************)
\* C14: evaluating size_human leaves the FileInfo as it was made (size is
\* the same before and after), so every evaluation on one FileInfo gives
\* the same text, whatever the size.
C14_SizeHumanLeavesSize ==
    /\ info.num = info.made /\ info.den = 1
    /\ \A i, j \in 1..Len(shown) : shown[i] = shown[j]

(***************************************************************************)
(* Properties of the truncation marker.                                    *)
(***************************************************************************)
\* C15: the truncation marker stands in a search result only when files
\* were left out: with at most 100 permitted matches (100 included) the
\* result lists all of them and holds no marker.
C15_MarkerOnlyWhenTruncated ==
    (/\ fpc = "returned" /\ fcall.op = "search"
     /\ fres.tag \in {"Found", "No files found matching"}
     /\ Cardinality(PermittedMatches(fs, fcall.path, fcall.pattern, fcall.content))
           <= MaxResults)
        => /\ \A i \in 1..Len(fres.names) : fres.names[i] # Marker
           /\ Len(fres.names)
                 = Cardinality(PermittedMatches(fs, fcall.path, fcall.pattern,
                                                fcall.content))

====
